---- MODULE Spec2Model ----
(***************************************************************************)
(* A model of the synapse agent core: the JSON file memory                 *)
(* (synapse_core/memoirs), the pending-tool-call replay, the summarizing   *)
(* memory and the two-phase loop of Agent.next_stream.                     *)
(***************************************************************************)
EXTENDS Integers, Sequences, FiniteSets, TLC

VARIABLES
    mem,    \* the memory object and its file: messages, dirty (_dirty), file, kind, summary_threshold
    hist,   \* history of the memory's callers: last completed operation and what it observed
    ag,     \* the frame of the running next_stream generator: where it stands and its locals
    model,  \* the language model: any stream, or a fixed stream per log
    step,   \* what the last step of next_stream did (observation)
    run,    \* what the current next_stream call has done so far (observation)
    fork,   \* the uninterrupted continuation kept aside when the caller abandons a call
    context, \* the Context: its session_tools_map, and the call_tool call made on it
    sum     \* the frame of a _create_summary call in flight, and what a reader saw meanwhile

memVars == <<mem, hist>>
agentVars == <<ag, model, step, run, fork, context, sum>>
vars == <<mem, hist, ag, model, step, run, fork, context, sum>>

(***************************************************************************)
(* Bounds of the model and constants of the program.                       *)
(***************************************************************************)
SaveEvery == 10       \* json_file_memory.py: add persists when len(messages) % 10 == 0
MaxAdds == 3          \* messages one memory instance is given by direct add calls
MaxLog == 11          \* longest log any run builds
MaxTurns == 2         \* model streams one session of the agent consumes to their end
MaxSends == 1         \* user messages one session of the agent is sent
MaxStream == 1        \* tokens of one model stream
MaxFragments == 3     \* tokens of one model stream whose assembly is followed fragment by fragment
SummaryThreshold == 2 \* summary_threshold the summarizing memory is constructed with
MaxMessages == 3      \* max_messages the summarizing memory is constructed with
MaxSummaryTokens == 2 \* tokens of one summarization stream followed token by token
MaxLimit == 3         \* the largest limit get_history is called with
MaxSumAdds == 2       \* add calls on a summarizing memory followed step by step
LongLen == SaveEvery - 1   \* length of the long history a session may start from

Ids == {"a", "b"}
Names == {"x", "y"}

(***************************************************************************)
(* types.py: messages and tool calls.  MessageRole members are modelled by *)
(* their values.                                                           *)
(***************************************************************************)
ToolCall(id, name, arguments) == [id |-> id, name |-> name, arguments |-> arguments]

UserMessage(content) == [role |-> "user", content |-> content]

AssistantMessage(content, tool_calls) ==
    [role |-> "assistant", content |-> content, tool_calls |-> tool_calls]

ToolMessage(content, call_id) == [role |-> "tool", content |-> content, call_id |-> call_id]

(***************************************************************************)
(* JSON values of the persisted document.                                  *)
(***************************************************************************)
JNull == [t |-> "null"]
JStr(s) == [t |-> "str", v |-> s]
JList(l) == [t |-> "list", v |-> l]
JObj(o) == [t |-> "obj", v |-> o]

\* dict.get(key): the value, or None when the key is missing
Get(j, key) == IF key \in DOMAIN j.v THEN j.v[key] ELSE JNull

\* faulty variant: the id is written under name and the name under id
asdict_tool_call_swapped(tc) ==
    JObj([id |-> JStr(tc.name), name |-> JStr(tc.id), arguments |-> JStr(tc.arguments)])

\* dataclasses.asdict of a ToolCall
asdict_tool_call(tc) ==
    JObj([id |-> JStr(tc.id), name |-> JStr(tc.name), arguments |-> JStr(tc.arguments)])

\* dataclasses.asdict of a message, the role enum encoded by _MessageEncoder
asdict(m) ==
    CASE m.role = "user" ->
           JObj([content |-> JStr(m.content), role |-> JStr(m.role)])
      [] m.role = "assistant" ->
           JObj([content |-> JStr(m.content),
                 tool_calls |-> JList([i \in 1..Len(m.tool_calls) |->
                                          asdict_tool_call(m.tool_calls[i])]),
                 role |-> JStr(m.role)])
      [] m.role = "tool" ->
           JObj([content |-> JStr(m.content), call_id |-> JStr(m.call_id),
                 role |-> JStr(m.role)])

(***************************************************************************)
(* mappers.py: validation of a loaded document.  A validator yields        *)
(* [ok |-> TRUE, val |-> ...] or Invalid (the ValueError).                 *)
(***************************************************************************)
Invalid == [ok |-> FALSE]
Valid(v) == [ok |-> TRUE, val |-> v]

IsStr(j) == j.t = "str"

validate_role(j) ==
    IF IsStr(j) /\ j.v \in {"user", "assistant", "tool"} THEN Valid(j.v) ELSE Invalid

validate_content(j) == IF IsStr(j) THEN Valid(j.v) ELSE Invalid

validate_tool_id(j) == IF IsStr(j) THEN Valid(j.v) ELSE Invalid

validate_tool_call_name(j) == IF IsStr(j) THEN Valid(j.v) ELSE Invalid

validate_arguments(j) == IF IsStr(j) THEN Valid(j.v) ELSE Invalid

validate_tool_call(j) ==
    IF j.t # "obj" THEN Invalid
    ELSE LET id == validate_tool_id(Get(j, "id"))
             name == validate_tool_call_name(Get(j, "name"))
             arguments == validate_arguments(Get(j, "arguments"))
         IN  IF id.ok /\ name.ok /\ arguments.ok
             THEN Valid(ToolCall(id.val, name.val, arguments.val))
             ELSE Invalid

validate_tool_calls(j) ==
    IF j.t # "list" THEN Invalid
    ELSE LET items == [i \in 1..Len(j.v) |-> validate_tool_call(j.v[i])]
         IN  IF \A i \in 1..Len(items) : items[i].ok
             THEN Valid([i \in 1..Len(items) |-> items[i].val])
             ELSE Invalid

validate_message(j) ==
    IF j.t # "obj" THEN Invalid
    ELSE LET role == validate_role(Get(j, "role"))
             content == validate_content(Get(j, "content"))
         IN  IF ~role.ok THEN Invalid
             ELSE IF ~content.ok THEN Invalid
             ELSE CASE role.val = "user" -> Valid(UserMessage(content.val))
                    [] role.val = "assistant" ->
                         LET tool_calls ==
                                 validate_tool_calls(
                                     IF "tool_calls" \in DOMAIN j.v
                                     THEN j.v["tool_calls"] ELSE JList(<<>>))
                         IN  IF tool_calls.ok
                             THEN Valid(AssistantMessage(content.val, tool_calls.val))
                             ELSE Invalid
                    [] role.val = "tool" ->
                         LET call_id == validate_tool_id(Get(j, "call_id"))
                         IN  IF call_id.ok
                             THEN Valid(ToolMessage(content.val, call_id.val))
                             ELSE Invalid

(***************************************************************************)
(* JSONFileMemory: the file and the operations on it.                      *)
(***************************************************************************)
NoFile == [exists |-> FALSE, doc |-> JNull]

\* _save_task: json.dump({"messages": list(map(asdict, self.messages))})
save_task(messages) ==
    [exists |-> TRUE,
     doc |-> JObj([messages |-> JList([i \in 1..Len(messages) |-> asdict(messages[i])])])]

\* _load_task: the messages of the file; the load fails on a malformed document
load_task(file) ==
    IF ~file.exists THEN Valid(<<>>)
    ELSE IF file.doc.t # "obj" THEN Invalid
    ELSE LET messages == Get(file.doc, "messages")
         IN  IF messages.t # "list" THEN Invalid
             ELSE LET items == [i \in 1..Len(messages.v) |-> validate_message(messages.v[i])]
                  IN  IF \A i \in 1..Len(items) : items[i].ok
                      THEN Valid([i \in 1..Len(items) |-> items[i].val])
                      ELSE Invalid

\* JSONFileMemory.__init__ (the file on disk is whatever an earlier process left)
NewMemory(file, kind, summary_threshold) ==
    [messages |-> <<>>, dirty |-> FALSE, file |-> file,
     kind |-> kind, summary_threshold |-> summary_threshold]

\* JSONFileMemory._persist
persist(m) ==
    IF ~m.dirty THEN m
    ELSE [m EXCEPT !.file = save_task(m.messages), !.dirty = FALSE]

\* JSONFileMemory.save
save(m) == persist([m EXCEPT !.dirty = TRUE])

\* faulty variant: the message is put at the head of the log
JSONFileMemory_add_head(m, message) ==
    LET appended == [m EXCEPT !.messages = <<message>> \o m.messages]
    IN  IF Len(appended.messages) % SaveEvery = 0 THEN save(appended) ELSE appended

\* JSONFileMemory.add: append, and save on every SaveEvery-th message
JSONFileMemory_add(m, message) ==
    LET appended == [m EXCEPT !.messages = Append(m.messages, message)]
    IN  IF Len(appended.messages) % SaveEvery = 0 THEN save(appended) ELSE appended

\* JSONFileMemory.close
JSONFileMemory_close(m) == IF m.dirty THEN persist(m) ELSE m

\* JSONFileMemory.clear
JSONFileMemory_clear(m) == persist([m EXCEPT !.messages = <<>>, !.dirty = TRUE])

\* faulty variant: the list of the memory itself is returned
all_alias(m) == [alias |-> TRUE, val |-> <<>>]

\* JSONFileMemory.all: self.messages[:], a new list with the messages of the log
all(m) == [alias |-> FALSE, val |-> m.messages]

\* what a caller finds in a list all() gave it: an alias of self.messages shows the
\* messages the memory has now, a copy shows the ones it was made of
ListContents(list, m) == IF list.alias THEN m.messages ELSE list.val

\* faulty variant: a failed load resets the log and the document to empty
JSONFileMemory_initialize_reset(m) ==
    LET loaded == load_task(m.file)
    IN  IF loaded.ok THEN [m EXCEPT !.messages = loaded.val]
        ELSE [m EXCEPT !.messages = <<>>, !.file = save_task(<<>>)]

\* JSONFileMemory.initialize: a failed load raises and leaves the log as it was
JSONFileMemory_initialize(m) ==
    LET loaded == load_task(m.file)
    IN  IF loaded.ok THEN [m EXCEPT !.messages = loaded.val] ELSE m

(***************************************************************************)
(* next_pending_tool_calls: the replay of the log.  The dict tool_calls is *)
(* a sequence of entries in insertion order; the value None is <<>> and a  *)
(* live ToolCall tc is <<tc>>.                                             *)
(***************************************************************************)
DictHas(d, k) == \E i \in 1..Len(d) : d[i].k = k

\* d[k] = v: a new key goes last, an existing key keeps its place
DictSet(d, k, v) ==
    IF DictHas(d, k)
    THEN [i \in 1..Len(d) |-> IF d[i].k = k THEN [k |-> k, v |-> v] ELSE d[i]]
    ELSE Append(d, [k |-> k, v |-> v])

\* faulty variants of the tool-message branch: one keeps an entry that is there
\* (setdefault), one drops the entry (pop)
MarkAnswered_setdefault(d, call_id) == IF DictHas(d, call_id) THEN d ELSE DictSet(d, call_id, <<>>)

MarkAnswered_pop(d, call_id) == SelectSeq(d, LAMBDA e : e.k # call_id)

\* the tool-message branch: tool_calls[message.call_id] = None
MarkAnswered(d, call_id) == DictSet(d, call_id, <<>>)

\* faulty variant of the inner loop: the last call with an id wins
RECURSIVE ScanToolCalls_overwrite(_, _)
ScanToolCalls_overwrite(d, tool_calls) ==
    IF tool_calls = <<>> THEN d
    ELSE ScanToolCalls_overwrite(DictSet(d, Head(tool_calls).id, <<Head(tool_calls)>>),
                                 Tail(tool_calls))

\* the inner loop over message.tool_calls
RECURSIVE ScanToolCalls(_, _)
ScanToolCalls(d, tool_calls) ==
    IF tool_calls = <<>> THEN d
    ELSE LET tool_call == Head(tool_calls)
         IN  ScanToolCalls(IF DictHas(d, tool_call.id) THEN d
                           ELSE DictSet(d, tool_call.id, <<tool_call>>),
                           Tail(tool_calls))

\* the loop over self.messages
RECURSIVE ScanMessages(_, _)
ScanMessages(d, messages) ==
    IF messages = <<>> THEN d
    ELSE LET message == Head(messages)
         IN  ScanMessages(CASE message.role = "tool" -> MarkAnswered(d, message.call_id)
                            [] message.role = "assistant" -> ScanToolCalls(d, message.tool_calls)
                            [] OTHER -> d,
                          Tail(messages))

\* [tool_call for tool_call in tool_calls.values() if tool_call]
LiveValues(d) ==
    LET live == SelectSeq(d, LAMBDA e : e.v # <<>>)
    IN  [i \in 1..Len(live) |-> live[i].v[1]]

next_pending_tool_calls(messages) == LiveValues(ScanMessages(<<>>, messages))

\* the ids of a list of tool calls
IdsOf(calls) == {calls[i].id : i \in 1..Len(calls)}

(***************************************************************************)
(* SummarizingJSONFileMemory: add runs a compaction when the log is longer *)
(* than summary_threshold.  stream is the token stream the model answers   *)
(* the summarization call with.                                            *)
(***************************************************************************)
TextToken(text) == [type |-> "text", text |-> text]
ToolCallIDToken(index, id) == [type |-> "tool_call_id", index |-> index, id |-> id]
ToolCallNameToken(index, name) == [type |-> "tool_call_name", index |-> index, name |-> name]
ToolCallArgumentsToken(index, arguments) ==
    [type |-> "tool_call_arguments", index |-> index, arguments |-> arguments]
ChatIDToken(id) == [type |-> "chat_id", id |-> id]

SummaryPrefix == "Resumen de la converzacion:\n"

\* faulty variant: the last text token replaces the summary
RECURSIVE SummaryText_last(_, _)
SummaryText_last(summary, stream) ==
    IF stream = <<>> THEN summary
    ELSE SummaryText_last(IF Head(stream).type = "text" THEN SummaryPrefix \o Head(stream).text
                          ELSE summary,
                          Tail(stream))

\* the loop of _create_summary over the stream: summary += token.text for text tokens
RECURSIVE SummaryText(_, _)
SummaryText(summary, stream) ==
    IF stream = <<>> THEN summary
    ELSE SummaryText(IF Head(stream).type = "text" THEN summary \o Head(stream).text
                     ELSE summary,
                     Tail(stream))

\* SummarizingJSONFileMemory._create_summary
create_summary(m, stream) ==
    LET kept == SubSeq(m.messages, m.summary_threshold + 1, Len(m.messages))
        summary == SummaryText(SummaryPrefix, stream)
    IN  save([m EXCEPT !.messages = <<UserMessage(summary)>> \o kept])

\* the test of SummarizingJSONFileMemory.add after the append
NeedsSummary(m) == Len(m.messages) > m.summary_threshold

\* SummarizingJSONFileMemory.add
SummarizingJSONFileMemory_add(m, message, stream) ==
    LET added == JSONFileMemory_add(m, message)
    IN  IF NeedsSummary(added) THEN create_summary(added, stream) ELSE added

\* faulty variant: add returns before the message is in the log
memory_add_deferred(m, message, stream) == m

\* memory.add(message) on whichever memory the agent was given
memory_add(m, message, stream) ==
    IF m.kind = "summarizing" THEN SummarizingJSONFileMemory_add(m, message, stream)
    ELSE JSONFileMemory_add(m, message)

\* whether memory.add(message) asks the model for a summary
AddSummarizes(m, message) ==
    m.kind = "summarizing" /\ NeedsSummary(JSONFileMemory_add(m, message))

\* the streams the model answers a summarization call with
SummaryStreams == {<<TextToken("s")>>, <<ChatIDToken("c"), TextToken("s"), TextToken("s")>>}

(***************************************************************************)
(* The frame of next_stream.  pc is the place the generator stands at:     *)
(*   idle       no generator                                               *)
(*   loop       the test of the while loop                                 *)
(*   stream     waiting for the first token of the model's stream          *)
(*   token      suspended at "yield token"                                 *)
(*   assistant  suspended at "yield assistant_message"                     *)
(*   context    the test "if context_dirty"                                *)
(*   batch      the head of the loop over pending_tool_calls               *)
(*   called     call_tool has returned, its message is not yet added       *)
(*   tool       suspended at "yield tool_message"                          *)
(*   done       the generator has ended                                    *)
(*   failed     the generator was left by an exception of the model stream *)
(***************************************************************************)
None == [none |-> TRUE]
Some(v) == [none |-> FALSE, v |-> v]

\* bool(x) of an optional list
Truthy(x) == ~x.none /\ x.v # <<>>

IdleAgent ==
    [pc |-> "idle", pending_tool_calls |-> None, model_dirty |-> FALSE,
     context_dirty |-> FALSE, messages |-> <<>>, content_buffer |-> "",
     tool_calls_buffer |-> <<>>, ntokens |-> 0, idx |-> 0, tool_message |-> None]

FreeModel == [det |-> FALSE]

NoStep == [create_chat_stream |-> "none", in_batch |-> FALSE, in_stream |-> FALSE,
           appended |-> FALSE, call_tool |-> FALSE]

NoRun == [initial |-> {}, answered |-> {}, first |-> "none", model_entered |-> FALSE,
          last |-> "none", produced |-> FALSE, executed |-> 0, started |-> FALSE, open |-> {},
          phases |-> 0, received |-> <<>>, emitted |-> <<>>, appended |-> 0]

NoFork == [st |-> "none"]

\* a Context before setup: no session, and no call_tool call made yet
NoContext ==
    [session_tools_map |-> <<>>, servers |-> <<>>, ready |-> FALSE, called |-> FALSE,
     path |-> "none", session |-> 0]

\* no other task has read the log
NoRead == [taken |-> FALSE]

\* no _create_summary call in flight
NoSum ==
    [pc |-> "idle", overflow_messages |-> <<>>, summary |-> "", ntokens |-> 0,
     tool_definitions |-> None, whole |-> <<>>, stream |-> <<>>, by |-> "none",
     reader |-> NoRead]

(***************************************************************************)
(* The callers of a JSONFileMemory.  A process constructs the memory,      *)
(* initializes it, adds messages and reads the pending calls, and closes   *)
(* it; it may crash at any time, and the next process starts over on the   *)
(* file the crashed one left.                                              *)
(***************************************************************************)
CallSeqs ==
    {<<>>, <<ToolCall("a", "x", "{}")>>, <<ToolCall("b", "x", "{}")>>,
     <<ToolCall("a", "y", "{}")>>,
     <<ToolCall("a", "x", "{}"), ToolCall("b", "x", "{}")>>,
     <<ToolCall("b", "x", "{}"), ToolCall("a", "y", "{}")>>,
     <<ToolCall("a", "x", "{}"), ToolCall("a", "y", "{}")>>}

AddedMessages ==
    {UserMessage("u")} \cup {ToolMessage("r", i) : i \in Ids}
        \cup {AssistantMessage(IF cs = <<>> THEN "t" ELSE "", cs) : cs \in CallSeqs}

\* the files an earlier session may have left
InitFiles ==
    {NoFile,
     save_task([i \in 1..LongLen |-> UserMessage("u")]),
     save_task(<<ToolMessage("r", "b"), AssistantMessage("", <<ToolCall("a", "x", "{}")>>)>>)}

\* a document with the given value under "messages"
Document(messages) == [exists |-> TRUE, doc |-> JObj([messages |-> messages])]

\* malformed documents: the top level not an object, messages not a list, a message not
\* an object, an unknown role, and a content, call_id or tool-call field not a string
BadFiles ==
    {[exists |-> TRUE, doc |-> JList(<<>>)],
     Document(JStr("u")),
     Document(JList(<<asdict(UserMessage("u")), JStr("u")>>)),
     Document(JList(<<JObj([content |-> JStr("u"), role |-> JStr("system")])>>)),
     Document(JList(<<JObj([content |-> JNull, role |-> JStr("user")])>>)),
     Document(JList(<<JObj([content |-> JStr("r"), call_id |-> JNull, role |-> JStr("tool")])>>)),
     Document(JList(<<asdict(UserMessage("u")),
                      JObj([content |-> JStr(""), role |-> JStr("assistant"),
                            tool_calls |-> JList(<<JObj([id |-> JStr("a"), name |-> JStr("x"),
                                                         arguments |-> JObj(<<>>)])>>)])>>))}

NoSnap == [taken |-> FALSE]

Hist(op) ==
    [op |-> op, adds |-> 0, turns |-> 0, snap |-> NoSnap, pre |-> <<>>, recovering |-> FALSE,
     loaded |-> 0, all |-> NoSnap, history |-> NoSnap, called |-> [id \in Ids |-> 0]]

InitMem ==
    /\ \E f \in InitFiles \cup BadFiles : mem = NewMemory(f, "json", 0)
    /\ hist = Hist("new")
    /\ ag = IdleAgent
    /\ model = FreeModel
    /\ step = NoStep
    /\ run = NoRun
    /\ fork = NoFork
    /\ context = NoContext
    /\ sum = NoSum

IsOpen == hist.op \in {"initialize", "add", "clear", "pending"}

\* memory.initialize()
Initialize ==
    /\ hist.op = "new"
    /\ load_task(mem.file).ok
    /\ mem' = JSONFileMemory_initialize(mem)
    /\ hist' = [hist EXCEPT !.op = "initialize", !.loaded = Len(mem'.messages)]
    /\ UNCHANGED agentVars

\* memory.initialize() on a malformed document: _load_task raises RuntimeError
InitializeFail ==
    /\ hist.op = "new"
    /\ ~load_task(mem.file).ok
    /\ mem' = JSONFileMemory_initialize(mem)
    /\ hist' = [hist EXCEPT !.op = "failed"]
    /\ UNCHANGED agentVars

\* memory.add(message), called directly
Add(message) ==
    /\ IsOpen
    /\ ag.pc = "idle"
    /\ hist.adds < MaxAdds
    /\ Len(mem.messages) < MaxLog
    /\ mem' = JSONFileMemory_add(mem, message)
    /\ hist' = [hist EXCEPT !.op = "add", !.adds = @ + 1, !.recovering = FALSE, !.pre = <<>>,
                            !.history = NoSnap,
                            !.snap = IF hist.snap.taken /\ message.role = "tool"
                                     THEN [hist.snap EXCEPT !.answered = @ \cup {message.call_id}]
                                     ELSE NoSnap]
    /\ UNCHANGED agentVars

\* faulty variant: the replay drops the tool messages it has accounted for
MemoryAfterPending_pruned(m) ==
    [m EXCEPT !.messages = SelectSeq(@, LAMBDA message : message.role # "tool")]

\* the memory after next_pending_tool_calls(): the replay fills a local dict only
MemoryAfterPending(m) == m

\* memory.next_pending_tool_calls(), called directly: the caller keeps the ids it was given
Pending ==
    /\ IsOpen
    /\ mem' = MemoryAfterPending(mem)
    /\ hist' = [hist EXCEPT !.op = "pending", !.recovering = FALSE, !.pre = <<>>,
                            !.snap = [taken |-> TRUE,
                                      calls |-> next_pending_tool_calls(mem.messages),
                                      ids |-> {next_pending_tool_calls(mem.messages)[i].id :
                                                 i \in 1..Len(next_pending_tool_calls(mem.messages))},
                                      answered |-> {}]]
    /\ UNCHANGED agentVars

\* memory.all(), called directly on the log that was loaded, before the adds: the
\* caller keeps the list it was given
All ==
    /\ IsOpen
    /\ ~hist.all.taken
    /\ hist.adds = 0
    /\ mem.messages # <<>>
    /\ hist' = [hist EXCEPT !.all = [taken |-> TRUE, list |-> all(mem), was |-> mem.messages]]
    /\ UNCHANGED mem
    /\ UNCHANGED agentVars

\* memory.clear()
Clear ==
    /\ IsOpen
    /\ mem.messages # <<>>
    /\ mem' = JSONFileMemory_clear(mem)
    /\ hist' = [hist EXCEPT !.op = "clear", !.recovering = FALSE, !.pre = <<>>, !.snap = NoSnap]
    /\ UNCHANGED agentVars

\* memory.close()
Close ==
    /\ IsOpen
    /\ mem' = JSONFileMemory_close(mem)
    /\ hist' = [hist EXCEPT !.op = "close", !.recovering = FALSE, !.pre = <<>>, !.snap = NoSnap]
    /\ UNCHANGED agentVars

\* the process dies and a new one constructs its memory on the same file
Restart ==
    /\ hist.op # "new"
    /\ mem' = NewMemory(mem.file, mem.kind, mem.summary_threshold)
    /\ hist' = [Hist("new") EXCEPT !.pre = next_pending_tool_calls(mem.messages),
                                   !.recovering = IsOpen]
    /\ UNCHANGED agentVars

NextMem ==
    \/ Initialize
    \/ InitializeFail
    \/ \E message \in AddedMessages : Add(message)
    \/ Pending
    \/ All
    \/ Clear
    \/ Close
    \/ Restart

SpecMem == InitMem /\ [][NextMem]_vars

(***************************************************************************)
(* The callers of get_history: the memory is initialized, messages are     *)
(* added, and the recent history is asked for with a limit.                *)
(***************************************************************************)
\* JSONFileMemory.get_history: self.messages[-limit:].  The slice starts at -limit,
\* which counts from the end when it is negative and is position 0 when limit is 0.
get_history(m, limit) ==
    LET n == Len(m.messages)
        start == IF limit = 0 THEN 0 ELSE IF limit > n THEN 0 ELSE n - limit
    IN  SubSeq(m.messages, start + 1, n)

\* memory.get_history(limit), called directly: the caller keeps the list it was given
GetHistory(limit) ==
    /\ IsOpen
    /\ hist' = [hist EXCEPT !.history = [taken |-> TRUE, limit |-> limit,
                                         list |-> get_history(mem, limit),
                                         was |-> mem.messages]]
    /\ UNCHANGED mem
    /\ UNCHANGED agentVars

NextHist ==
    \/ Initialize
    \/ InitializeFail
    \/ \E message \in AddedMessages : Add(message)
    \/ \E limit \in 0..MaxLimit : GetHistory(limit)

SpecHist == InitMem /\ [][NextHist]_vars

(***************************************************************************)
(* Agent.next_stream: the model phase's token assembly.                    *)
(***************************************************************************)
\* tool_calls_buffer[index] of the defaultdict: a missing slot is an empty ToolCall
BufferGet(buffer, index) ==
    IF index \in DOMAIN buffer THEN buffer[index] ELSE ToolCall("", "", "")

BufferPut(buffer, index, tool_call) ==
    [i \in DOMAIN buffer \cup {index} |-> IF i = index THEN tool_call ELSE buffer[i]]

\* faulty variant: the fragment replaces the field instead of extending it
Assemble_replace(buffer, token) ==
    CASE token.type = "tool_call_id" ->
           BufferPut(buffer, token.index,
                     [BufferGet(buffer, token.index) EXCEPT !.id = token.id])
      [] token.type = "tool_call_name" ->
           BufferPut(buffer, token.index,
                     [BufferGet(buffer, token.index) EXCEPT !.name = token.name])
      [] token.type = "tool_call_arguments" ->
           BufferPut(buffer, token.index,
                     [BufferGet(buffer, token.index) EXCEPT !.arguments = token.arguments])
      [] OTHER -> buffer

\* the branches on token.type that fill tool_calls_buffer
Assemble(buffer, token) ==
    CASE token.type = "tool_call_id" ->
           BufferPut(buffer, token.index,
                     [BufferGet(buffer, token.index) EXCEPT !.id = @ \o token.id])
      [] token.type = "tool_call_name" ->
           BufferPut(buffer, token.index,
                     [BufferGet(buffer, token.index) EXCEPT !.name = @ \o token.name])
      [] token.type = "tool_call_arguments" ->
           BufferPut(buffer, token.index,
                     [BufferGet(buffer, token.index) EXCEPT !.arguments = @ \o token.arguments])
      [] OTHER -> buffer

\* faulty variant: a text token replaces the text received so far
AssembleContent_last(content_buffer, token) ==
    IF token.type = "text" THEN token.text ELSE content_buffer

\* the branch on token.type that fills content_buffer
AssembleContent(content_buffer, token) ==
    IF token.type = "text" THEN content_buffer \o token.text ELSE content_buffer

Min(S) == CHOOSE x \in S : \A y \in S : x <= y

\* faulty variant: the slots are listed by descending index
RECURSIVE SortedCalls_descending(_, _)
SortedCalls_descending(buffer, indexes) ==
    IF indexes = {} THEN <<>>
    ELSE SortedCalls_descending(buffer, indexes \ {Min(indexes)}) \o <<buffer[Min(indexes)]>>

\* [tool_call for _, tool_call in sorted(tool_calls_buffer.items(), key=index)]
RECURSIVE SortedCalls(_, _)
SortedCalls(buffer, indexes) ==
    IF indexes = {} THEN <<>>
    ELSE <<buffer[Min(indexes)]>> \o SortedCalls(buffer, indexes \ {Min(indexes)})

(***************************************************************************)
(* Agent.next_stream: the flags.                                           *)
(***************************************************************************)
\* model_dirty = not pending_tool_calls, before the loop
InitialModelDirty_always(pending) == TRUE

InitialModelDirty(pending) == pending = <<>>

\* context_dirty = bool(pending_tool_calls), before the loop
InitialContextDirty_never(pending) == FALSE

InitialContextDirty(pending) == pending # <<>>

\* faulty variant: the flag is left as it was
ModelDirtyAfterModel_kept(model_dirty) == model_dirty

\* model_dirty = False, at the end of the model phase
ModelDirtyAfterModel(model_dirty) == FALSE

\* faulty variant: the tool phase is never asked for after a model phase
ContextDirtyAfterModel_never(buffer) == FALSE

\* context_dirty = bool(tool_calls_buffer), at the end of the model phase
ContextDirtyAfterModel(buffer) == DOMAIN buffer # {}

\* faulty variant: the batch is walked from its last call to its first
PendingForBatch_reversed(pending, messages) ==
    LET calls == IF Truthy(pending) THEN pending.v ELSE next_pending_tool_calls(messages)
    IN  [k \in 1..Len(calls) |-> calls[Len(calls) + 1 - k]]

\* pending_tool_calls or await self.memory.next_pending_tool_calls()
PendingForBatch(pending, messages) ==
    IF Truthy(pending) THEN pending.v ELSE next_pending_tool_calls(messages)

\* the loop over pending_tool_calls is exhausted
BatchDone_first(a) == a.idx > Min({1, Len(a.pending_tool_calls.v)})

BatchDone(a) == a.idx > Len(a.pending_tool_calls.v)

\* model_dirty = bool(pending_tool_calls), after the batch
ModelDirtyAfterBatch_never(pending) == FALSE

ModelDirtyAfterBatch(pending) == Truthy(pending)

\* Context.call_tool: every path returns a ToolMessage that echoes the call's id
call_tool(tool_call, content) == ToolMessage(content, tool_call.id)

ToolContents == {"r"}

(***************************************************************************)
(* The model: the tokens it may send next.  A free model sends any token   *)
(* of TokenSet (a chat id only first) and ends its stream when it likes; a *)
(* deterministic model answers the messages it is given with the stream    *)
(* its script holds for them (the script looks at the last message).       *)
(***************************************************************************)
TokenSet ==
    {TextToken("h"), ChatIDToken("c"), ToolCallIDToken(0, "a"), ToolCallIDToken(2, "b")}

LastKind(messages) == IF messages = <<>> THEN "empty" ELSE messages[Len(messages)].role

DetKinds == {"empty", "user", "assistant", "tool"}

DetStreams ==
    {stream \in {<<>>, <<TextToken("h")>>, <<ToolCallIDToken(0, "a")>>,
                 <<ToolCallIDToken(0, "a"), ToolCallIDToken(2, "b")>>} :
        Len(stream) <= MaxStream}

DetStream(a) == model.script[LastKind(a.messages)]

MaySend(a, token) ==
    /\ a.ntokens < MaxStream
    /\ IF model.det
       THEN a.ntokens < Len(DetStream(a)) /\ token = DetStream(a)[a.ntokens + 1]
       ELSE token \in TokenSet /\ (token.type = "chat_id" => a.ntokens = 0)

MayEnd(a) == IF model.det THEN a.ntokens = Len(DetStream(a)) ELSE TRUE

\* the streams the summarization call of memory.add(message) may be answered with
StreamsFor(m, message) == IF AddSummarizes(m, message) THEN SummaryStreams ELSE {<<>>}

(***************************************************************************)
(* Observation of a step: who called create_chat_stream in it, whether a   *)
(* tool batch was in progress then (its first call_tool made, a call of it *)
(* not yet answered in the log), whether the step began and ended inside   *)
(* the consumption of a model stream, and whether it appended to the log   *)
(* or called a tool.                                                       *)
(***************************************************************************)
StreamOpen(a) == a.pc \in {"stream", "token"}

Observed(who, a, a2, m, m2, r2) ==
    [create_chat_stream |-> who,
     in_batch |-> who # "none" /\ r2.started /\ r2.open # {},
     in_stream |-> StreamOpen(a) /\ StreamOpen(a2),
     appended |-> m2.messages # m.messages,
     call_tool |-> a2.pc = "called"]

Summarizer(m, message) == IF AddSummarizes(m, message) THEN "summary" ELSE "none"

(***************************************************************************)
(* Agent.next_stream, step by step.                                        *)
(***************************************************************************)
\* the call of next_stream up to the while loop
StartCall ==
    /\ IsOpen
    /\ LET pending == next_pending_tool_calls(mem.messages)
       IN  /\ ag' = [IdleAgent EXCEPT !.pc = "loop",
                                      !.pending_tool_calls = Some(pending),
                                      !.model_dirty = InitialModelDirty(pending),
                                      !.context_dirty = InitialContextDirty(pending)]
           /\ run' = [NoRun EXCEPT !.initial = IdsOf(pending)]
    /\ step' = Observed("none", ag, ag', mem, mem, run')
    /\ UNCHANGED <<mem, hist, model, fork, context, sum>>

\* next_stream is called: the first time, or again after a call that ended or failed
Start == ag.pc \in {"idle", "done", "failed"} /\ StartCall

\* while model_dirty or context_dirty: neither holds, the generator ends
Finish ==
    /\ ag.pc = "loop"
    /\ ~(ag.model_dirty \/ ag.context_dirty)
    /\ ag' = [IdleAgent EXCEPT !.pc = "done"]
    /\ step' = Observed("none", ag, ag', mem, mem, run)
    /\ UNCHANGED <<mem, hist, model, run, fork, context, sum>>

\* if model_dirty: messages = all(), the buffers, create_chat_stream(messages)
ModelBegin ==
    /\ ag.pc = "loop"
    /\ ag.model_dirty
    /\ hist.turns < MaxTurns
    /\ ag' = [ag EXCEPT !.pc = "stream", !.messages = mem.messages, !.content_buffer = "",
                        !.tool_calls_buffer = <<>>, !.ntokens = 0]
    /\ run' = [run EXCEPT !.model_entered = TRUE,
                          !.first = IF @ = "none" THEN "model" ELSE @,
                          !.phases = @ + 1, !.received = <<>>, !.emitted = <<>>]
    /\ step' = Observed("agent", ag, ag', mem, mem, run')
    /\ UNCHANGED <<mem, hist, model, fork, context, sum>>

\* yield token: every token of the stream is handed to the caller
Yields_text(token) == token.type = "text"

Yields(token) == TRUE

\* faulty variant: the message assembled so far is added at every token
LogInStream_partial(m, a) ==
    JSONFileMemory_add(m, AssistantMessage(a.content_buffer,
                                           SortedCalls(a.tool_calls_buffer,
                                                       DOMAIN a.tool_calls_buffer)))

\* the memory after the body of the async for: the body calls nothing of the memory
LogInStream(m, a) == m

\* the body of the async for: the token is assembled and yielded
ReceiveToken(token) ==
    /\ ag' = [ag EXCEPT !.pc = IF Yields(token) THEN "token" ELSE "stream",
                        !.ntokens = @ + 1,
                        !.content_buffer = AssembleContent(@, token),
                        !.tool_calls_buffer = Assemble(@, token)]
    /\ mem' = LogInStream(mem, ag')
    /\ run' = [run EXCEPT !.received = Append(@, token),
                          !.emitted = IF Yields(token) THEN Append(@, token) ELSE @]
    /\ step' = Observed("none", ag, ag', mem, mem', run')
    /\ UNCHANGED <<hist, model, fork, context, sum>>

\* the stream sends a token: it is assembled and yielded
ModelToken(token) ==
    /\ StreamOpen(ag)
    /\ MaySend(ag, token)
    /\ ReceiveToken(token)

\* the stream raises: the exception leaves next_stream, whose frame is kept as it was
ModelFail ==
    /\ StreamOpen(ag)
    /\ ag' = [ag EXCEPT !.pc = "failed"]
    /\ step' = Observed("none", ag, ag', mem, mem, run)
    /\ UNCHANGED <<mem, hist, model, run, fork, context, sum>>

\* faulty variant: an assistant message is built at the end of every stream
HasOutput_always(content_buffer, tool_calls_buffer) == TRUE

\* if content_buffer or tool_calls_buffer
HasOutput(content_buffer, tool_calls_buffer) ==
    content_buffer # "" \/ DOMAIN tool_calls_buffer # {}

\* the stream ends with text or tool calls assembled: the assistant message is
\* added to the memory and yielded
ModelEndAppend ==
    /\ StreamOpen(ag)
    /\ MayEnd(ag)
    /\ HasOutput(ag.content_buffer, ag.tool_calls_buffer)
    /\ LET assistant_message ==
               AssistantMessage(ag.content_buffer,
                                SortedCalls(ag.tool_calls_buffer, DOMAIN ag.tool_calls_buffer))
       IN  /\ \E stream \in StreamsFor(mem, assistant_message) :
                  mem' = memory_add(mem, assistant_message, stream)
           /\ ag' = [ag EXCEPT !.pc = "assistant"]
           /\ run' = [run EXCEPT !.appended = @ + 1,
                                 !.emitted = Append(@, assistant_message)]
           /\ step' = Observed(Summarizer(mem, assistant_message), ag, ag', mem, mem', run')
    /\ hist' = [hist EXCEPT !.turns = @ + 1]
    /\ UNCHANGED <<model, fork, context, sum>>

\* the generator is resumed after the assistant message: the end of the model phase
\* (messages and the buffers are not read again before the next model phase sets them)
AfterAssistant ==
    /\ ag.pc = "assistant"
    /\ ag' = [ag EXCEPT !.pc = "context", !.model_dirty = ModelDirtyAfterModel(@),
                        !.context_dirty = ContextDirtyAfterModel(ag.tool_calls_buffer),
                        !.messages = <<>>, !.content_buffer = "",
                        !.tool_calls_buffer = <<>>, !.ntokens = 0]
    /\ run' = [run EXCEPT !.last = "model",
                          !.produced = DOMAIN ag.tool_calls_buffer # {}]
    /\ step' = Observed("none", ag, ag', mem, mem, run')
    /\ UNCHANGED <<mem, hist, model, fork, context, sum>>

\* the stream ends with nothing assembled: the end of the model phase
ModelEndEmpty ==
    /\ StreamOpen(ag)
    /\ MayEnd(ag)
    /\ ~HasOutput(ag.content_buffer, ag.tool_calls_buffer)
    /\ ag' = [ag EXCEPT !.pc = "context", !.model_dirty = ModelDirtyAfterModel(@),
                        !.context_dirty = ContextDirtyAfterModel(ag.tool_calls_buffer),
                        !.messages = <<>>, !.content_buffer = "",
                        !.tool_calls_buffer = <<>>, !.ntokens = 0]
    /\ run' = [run EXCEPT !.last = "model", !.produced = FALSE]
    /\ hist' = [hist EXCEPT !.turns = @ + 1]
    /\ step' = Observed("none", ag, ag', mem, mem, run')
    /\ UNCHANGED <<mem, model, fork, context, sum>>

\* if context_dirty: the pending calls of the batch
ContextBegin ==
    /\ ag.pc = "context" \/ (ag.pc = "loop" /\ ~ag.model_dirty)
    /\ ag.context_dirty
    /\ ag' = [ag EXCEPT !.pc = "batch", !.idx = 1,
                        !.pending_tool_calls =
                            Some(PendingForBatch(ag.pending_tool_calls, mem.messages))]
    /\ run' = [run EXCEPT !.first = IF @ = "none" THEN "tool" ELSE @,
                          !.executed = 0, !.started = FALSE,
                          !.open = IdsOf(ag'.pending_tool_calls.v)]
    /\ step' = Observed("none", ag, ag', mem, mem, run')
    /\ UNCHANGED <<mem, hist, model, fork, context, sum>>

\* if context_dirty does not hold: back to the test of the while loop
ContextSkip ==
    /\ ag.pc = "context"
    /\ ~ag.context_dirty
    /\ ag' = [ag EXCEPT !.pc = "loop"]
    /\ step' = Observed("none", ag, ag', mem, mem, run)
    /\ UNCHANGED <<mem, hist, model, run, fork, context, sum>>

\* tool_message = await self.context.call_tool(tool_call): the generator's side
CallToolStep ==
    /\ ag.pc \in {"batch", "tool"}
    /\ ~BatchDone(ag)
    /\ \E content \in ToolContents :
           ag' = [ag EXCEPT !.pc = "called",
                            !.tool_message =
                                Some(call_tool(ag.pending_tool_calls.v[ag.idx], content))]
    /\ run' = [run EXCEPT !.started = TRUE]
    /\ step' = Observed("none", ag, ag', mem, mem, run')
    /\ UNCHANGED <<mem, model, fork, context, sum>>

\* tool_message = await self.context.call_tool(tool_call)
CallTool == CallToolStep /\ UNCHANGED hist

\* await self.memory.add(tool_message); yield tool_message
AddToolMessage ==
    /\ ag.pc = "called"
    /\ \E stream \in StreamsFor(mem, ag.tool_message.v) :
           mem' = memory_add(mem, ag.tool_message.v, stream)
    /\ ag' = [ag EXCEPT !.pc = "tool", !.idx = @ + 1, !.tool_message = None]
    /\ run' = [run EXCEPT !.answered = @ \cup {ag.tool_message.v.call_id},
                          !.open = @ \ {ag.tool_message.v.call_id},
                          !.executed = @ + 1, !.appended = @ + 1,
                          !.emitted = Append(@, ag.tool_message.v)]
    /\ step' = Observed(Summarizer(mem, ag.tool_message.v), ag, ag', mem, mem', run')
    /\ UNCHANGED <<hist, model, fork, context, sum>>

\* the batch is over: the flags, and pending_tool_calls = None
EndBatch ==
    /\ ag.pc \in {"batch", "tool"}
    /\ BatchDone(ag)
    /\ ag' = [ag EXCEPT !.pc = "loop", !.idx = 0,
                        !.model_dirty = ModelDirtyAfterBatch(ag.pending_tool_calls),
                        !.context_dirty = FALSE,
                        !.pending_tool_calls = None]
    /\ run' = [run EXCEPT !.last = "tool"]
    /\ step' = Observed("none", ag, ag', mem, mem, run')
    /\ UNCHANGED <<mem, hist, model, fork, context, sum>>

AtYield(a) == a.pc \in {"token", "assistant", "tool"}

\* the caller stops iterating a generator suspended at a yield
Abandon ==
    /\ AtYield(ag)
    /\ ag' = IdleAgent
    /\ run' = NoRun
    /\ step' = Observed("none", ag, ag', mem, mem, run')
    /\ UNCHANGED <<mem, hist, model, fork, context, sum>>

\* SynapseCli.send: a user message is added between two next_stream calls
Send ==
    /\ IsOpen
    /\ ag.pc \in {"idle", "done"}
    /\ hist.adds < MaxSends
    /\ \E stream \in StreamsFor(mem, UserMessage("u")) :
           mem' = memory_add(mem, UserMessage("u"), stream)
    /\ hist' = [hist EXCEPT !.adds = @ + 1]
    /\ step' = Observed(Summarizer(mem, UserMessage("u")), ag, ag, mem, mem', run)
    /\ UNCHANGED <<ag, model, run, fork, context, sum>>

\* the files an earlier session may have left to the agent
AgentFiles ==
    {NoFile,
     save_task(<<UserMessage("u"),
                 AssistantMessage("", <<ToolCall("a", "x", "{}"), ToolCall("b", "x", "{}")>>)>>),
     save_task(<<AssistantMessage("", <<ToolCall("a", "x", "{}")>>), ToolMessage("r", "a")>>)}

Init ==
    /\ \E f \in AgentFiles : \E kind \in {"json", "summarizing"} :
           mem = NewMemory(f, kind, SummaryThreshold)
    /\ hist = Hist("new")
    /\ ag = IdleAgent
    /\ model = FreeModel
    /\ step = NoStep
    /\ run = NoRun
    /\ fork = NoFork
    /\ context = NoContext
    /\ sum = NoSum

Next ==
    \/ Initialize
    \/ Send
    \/ Start
    \/ Finish
    \/ ModelBegin
    \/ \E token \in TokenSet : ModelToken(token)
    \/ ModelFail
    \/ ModelEndAppend
    \/ AfterAssistant
    \/ ModelEndEmpty
    \/ ContextBegin
    \/ ContextSkip
    \/ CallTool
    \/ AddToolMessage
    \/ EndBatch
    \/ Abandon

Spec == Init /\ [][Next]_vars

(***************************************************************************)
(* One call of next_stream that nothing interrupts: the caller iterates    *)
(* the generator to its end, no stream raises, and the model's answer in   *)
(* the last of the MaxTurns model phases holds no tool call.  Every step   *)
(* of the generator that can be taken is eventually taken.                 *)
(***************************************************************************)
IsToolCallToken(token) ==
    token.type \in {"tool_call_id", "tool_call_name", "tool_call_arguments"}

\* next_stream is called once
StartLive == ag.pc = "idle" /\ StartCall

\* the stream sends a token; a fragment of a tool call only before the last phase
LiveToken(token) ==
    /\ IsToolCallToken(token) => hist.turns < MaxTurns - 1
    /\ ModelToken(token)

\* the steps of the generator, of the model's streams and of the tools
Running ==
    \/ Finish
    \/ ModelBegin
    \/ \E token \in TokenSet : LiveToken(token)
    \/ ModelEndAppend
    \/ AfterAssistant
    \/ ModelEndEmpty
    \/ ContextBegin
    \/ ContextSkip
    \/ CallTool
    \/ AddToolMessage
    \/ EndBatch

NextLive ==
    \/ Initialize
    \/ Send
    \/ StartLive
    \/ Running

SpecLive == Init /\ [][NextLive]_vars /\ WF_vars(Running)


(***************************************************************************)
(* Calls of next_stream one after another on the same memory, some of them *)
(* abandoned at a yield, with a model that gives every tool call an id the *)
(* conversation has not used.  The calls of Context.call_tool are counted  *)
(* per tool-call id.                                                       *)
(***************************************************************************)
RECURSIVE IdsIn(_)
IdsIn(messages) ==
    IF messages = <<>> THEN {}
    ELSE LET message == Head(messages)
         IN  (IF message.role = "tool" THEN {message.call_id}
              ELSE IF message.role = "assistant" THEN IdsOf(message.tool_calls)
              ELSE {})
                 \cup IdsIn(Tail(messages))

\* the ids the conversation has used: in the log, in the file, or executed
UsedIds ==
    IdsIn(mem.messages)
        \cup (IF load_task(mem.file).ok THEN IdsIn(load_task(mem.file).val) ELSE {})
        \cup {id \in Ids : hist.called[id] > 0}

\* the stream sends a token; an id fragment carries an id the conversation has not used
UniqueToken(token) ==
    /\ token.type = "tool_call_id" => token.id \notin UsedIds
    /\ ModelToken(token)

\* tool_message = await self.context.call_tool(tool_call), counted
CallToolCounted ==
    /\ CallToolStep
    /\ hist' = [hist EXCEPT !.called[ag.pending_tool_calls.v[ag.idx].id] =
                                 IF @ < 2 THEN @ + 1 ELSE @]

NextOnce ==
    \/ Initialize
    \/ Send
    \/ Start
    \/ Finish
    \/ ModelBegin
    \/ \E token \in TokenSet : UniqueToken(token)
    \/ ModelFail
    \/ ModelEndAppend
    \/ AfterAssistant
    \/ ModelEndEmpty
    \/ ContextBegin
    \/ ContextSkip
    \/ CallToolCounted
    \/ AddToolMessage
    \/ EndBatch
    \/ Abandon

SpecOnce == Init /\ [][NextOnce]_vars

(***************************************************************************)
(* An abandoned call next to the call that was not abandoned.  The model   *)
(* is deterministic.  When the caller abandons the generator at a yield,   *)
(* the generator's state is kept aside; the caller calls next_stream again *)
(* on the same memory and runs it to its end; then the state kept aside is *)
(* run to its end, as the call would have gone had it not been abandoned.  *)
(***************************************************************************)
DetFiles ==
    AgentFiles \cup {save_task(<<UserMessage("u")>>)}

InitDet ==
    /\ \E f \in DetFiles : mem = NewMemory(f, "json", SummaryThreshold)
    /\ \E script \in [DetKinds -> DetStreams] : model = [det |-> TRUE, script |-> script]
    /\ hist = Hist("new")
    /\ ag = IdleAgent
    /\ step = NoStep
    /\ run = NoRun
    /\ fork = NoFork
    /\ context = NoContext
    /\ sum = NoSum

\* next_stream is called on a memory no call is running on
StartOnce == ag.pc = "idle" /\ StartCall

\* the caller abandons the generator at a yield; its state is kept aside
AbandonFork ==
    /\ AtYield(ag)
    /\ fork.st = "none"
    /\ fork' = [st |-> "saved", at |-> ag.pc,
                pending |-> next_pending_tool_calls(mem.messages),
                ag |-> ag, mem |-> mem, hist |-> hist, run |-> run]
    /\ ag' = IdleAgent
    /\ run' = NoRun
    /\ step' = NoStep
    /\ UNCHANGED <<mem, hist, model, context, sum>>

\* the resumed call has ended: its log is kept, the state kept aside takes over
SwitchToReference ==
    /\ fork.st = "saved"
    /\ ag.pc = "done"
    /\ fork' = [st |-> "reference", at |-> fork.at, pending |-> fork.pending,
                final |-> mem.messages]
    /\ ag' = fork.ag
    /\ mem' = fork.mem
    /\ hist' = fork.hist
    /\ run' = fork.run
    /\ step' = NoStep
    /\ UNCHANGED <<model, context, sum>>

NextDet ==
    \/ Initialize
    \/ StartOnce
    \/ Finish
    \/ ModelBegin
    \/ \E token \in TokenSet : ModelToken(token)
    \/ ModelFail
    \/ ModelEndAppend
    \/ AfterAssistant
    \/ ModelEndEmpty
    \/ ContextBegin
    \/ ContextSkip
    \/ CallTool
    \/ AddToolMessage
    \/ EndBatch
    \/ AbandonFork
    \/ SwitchToReference

SpecDet == InitDet /\ [][NextDet]_vars

(***************************************************************************)
(* SummarizingJSONFileMemory._create_summary step by step.  The call is    *)
(* suspended while it awaits the tokens of the summarization stream, and   *)
(* another task of the event loop may read the memory meanwhile.  sum is   *)
(* the frame of the call: pc, the locals overflow_messages and summary,    *)
(* and for the properties the log before the cut (whole), the tokens       *)
(* received (stream) and what a reader last saw (reader).                  *)
(***************************************************************************)
SumarizePrompt == "p"

\* faulty variant: only the newest message is retained
CutPrefix_newest(m) ==
    [m EXCEPT !.messages = SubSeq(@, Len(@), Len(@))]

\* self.messages[self.summary_threshold:]
CutPrefix(m) ==
    [m EXCEPT !.messages = SubSeq(@, m.summary_threshold + 1, Len(@))]

\* faulty variant: the whole log is handed to the model
Overflow_whole(m) == m.messages \o <<UserMessage(SumarizePrompt)>>

\* self.messages[:self.summary_threshold], and the prompt appended
Overflow(m) ==
    SubSeq(m.messages, 1, IF Len(m.messages) < m.summary_threshold
                          THEN Len(m.messages) ELSE m.summary_threshold)
        \o <<UserMessage(SumarizePrompt)>>

\* self.messages.insert(0, UserMessage(content=summary)); await self.save()
InsertSummary(m, summary) ==
    save([m EXCEPT !.messages = <<UserMessage(summary)>> \o @])

\* _create_summary up to its first await: the prefix is cut, the stream is asked for
BeginSummary(m) ==
    [NoSum EXCEPT !.pc = "stream", !.overflow_messages = Overflow(m),
                  !.tool_definitions = Some(<<>>),
                  !.summary = SummaryPrefix, !.whole = m.messages]

SumMessages ==
    {UserMessage("u"), ToolMessage("r", "a"),
     AssistantMessage("", <<ToolCall("a", "x", "{}"), ToolCall("b", "x", "{}")>>)}

SumTokens == {TextToken("s"), ChatIDToken("c")}

SumFiles ==
    {NoFile,
     save_task(<<UserMessage("u"),
                 AssistantMessage("", <<ToolCall("a", "x", "{}"), ToolCall("b", "x", "{}")>>)>>),
     save_task([i \in 1..(MaxMessages + 1) |->
                  IF i = MaxMessages + 1
                  THEN AssistantMessage("", <<ToolCall("a", "x", "{}")>>)
                  ELSE UserMessage("u")])}

\* the values of summary_threshold a memory is constructed with
SumThresholds == {1, SummaryThreshold, MaxMessages + 2}

InitSum ==
    /\ \E f \in SumFiles : \E summary_threshold \in SumThresholds :
           mem = NewMemory(f, "summarizing", summary_threshold)
    /\ hist = Hist("new")
    /\ ag = IdleAgent
    /\ model = FreeModel
    /\ step = NoStep
    /\ run = NoRun
    /\ fork = NoFork
    /\ context = NoContext
    /\ sum = NoSum

SumIdle == sum.pc \in {"idle", "compacted", "failed"}

\* SummarizingJSONFileMemory.add: the append, and _create_summary up to its first await
SumAdd(message) ==
    /\ IsOpen
    /\ SumIdle
    /\ hist.adds < MaxSumAdds
    /\ LET added == JSONFileMemory_add(mem, message)
       IN  IF NeedsSummary(added)
           THEN mem' = CutPrefix(added) /\ sum' = [BeginSummary(added) EXCEPT !.by = "add"]
           ELSE mem' = added /\ sum' = [NoSum EXCEPT !.by = "add"]
    /\ hist' = [hist EXCEPT !.op = "add", !.adds = @ + 1]
    /\ UNCHANGED <<ag, model, step, run, fork, context>>

\* faulty variant: compact tests the length against summary_threshold
NeedsCompact_threshold(m) == Len(m.messages) > m.summary_threshold

\* the test of SummarizingJSONFileMemory.compact
NeedsCompact(m) == Len(m.messages) > MaxMessages

\* SummarizingJSONFileMemory.compact: the test, and _create_summary up to its first await
SumCompact ==
    /\ IsOpen
    /\ SumIdle
    /\ IF NeedsCompact(mem)
       THEN mem' = CutPrefix(mem) /\ sum' = [BeginSummary(mem) EXCEPT !.by = "compact"]
       ELSE mem' = mem /\ sum' = [NoSum EXCEPT !.by = "compact"]
    /\ UNCHANGED <<hist, ag, model, step, run, fork, context>>

\* the summarization stream sends a token
SumToken(token) ==
    /\ sum.pc = "stream"
    /\ sum.ntokens < MaxSummaryTokens
    /\ sum' = [sum EXCEPT !.summary = SummaryText(@, <<token>>),
                          !.ntokens = @ + 1,
                          !.stream = Append(@, token)]
    /\ UNCHANGED <<mem, hist, ag, model, step, run, fork, context>>

\* the summarization stream ends: the summary is inserted and the log saved
SumEnd ==
    /\ sum.pc = "stream"
    /\ mem' = InsertSummary(mem, sum.summary)
    /\ sum' = [sum EXCEPT !.pc = "compacted"]
    /\ UNCHANGED <<hist, ag, model, step, run, fork, context>>

\* the summarization stream raises: the exception leaves add or compact
SumFail ==
    /\ sum.pc = "stream"
    /\ sum' = [sum EXCEPT !.pc = "failed"]
    /\ UNCHANGED <<mem, hist, ag, model, step, run, fork, context>>

\* another task calls all() and next_pending_tool_calls(); what it saw is kept until
\* the next call of add or compact
SumRead ==
    /\ IsOpen
    /\ ~sum.reader.taken
    /\ sum' = [sum EXCEPT !.reader =
                   [taken |-> TRUE, at |-> sum.pc,
                    all |-> mem.messages,
                    pending |-> next_pending_tool_calls(mem.messages),
                    whole |-> IF sum.pc = "stream" THEN sum.whole ELSE mem.messages]]
    /\ UNCHANGED <<mem, hist, ag, model, step, run, fork, context>>

NextSum ==
    \/ Initialize
    \/ \E message \in SumMessages : SumAdd(message)
    \/ SumCompact
    \/ \E token \in SumTokens : SumToken(token)
    \/ SumEnd
    \/ SumFail
    \/ SumRead

SpecSum == InitSum /\ [][NextSum]_vars

(***************************************************************************)
(* The Context: setup registers the tools of the configured servers, and   *)
(* call_tool runs one tool call on the first session that has the tool.    *)
(* session_tools_map is a dict in insertion order: a sequence of sessions, *)
(* each with the names of the tools registered for it.                     *)
(***************************************************************************)
\* faulty variant of the inner loop: every tool of the server is registered
RegisterTools_all(tools, tools_name) == tools

\* the inner loop of setup: the tools of one server whose name is not registered yet
RECURSIVE RegisterTools(_, _)
RegisterTools(tools, tools_name) ==
    IF tools = <<>> THEN <<>>
    ELSE IF Head(tools) \in tools_name THEN RegisterTools(Tail(tools), tools_name)
    ELSE <<Head(tools)>> \o RegisterTools(Tail(tools), tools_name \cup {Head(tools)})

ToolsOf(session_tools_map) ==
    UNION {{session_tools_map[k][j] : j \in 1..Len(session_tools_map[k])} :
               k \in 1..Len(session_tools_map)}

\* Context.tools_definitions: the lists of the sessions, chained in insertion order
RECURSIVE tools_definitions(_)
tools_definitions(session_tools_map) ==
    IF session_tools_map = <<>> THEN <<>>
    ELSE Head(session_tools_map) \o tools_definitions(Tail(session_tools_map))

\* Context.setup: one session per configured server, in configuration order
RECURSIVE setup(_, _)
setup(servers, session_tools_map) ==
    IF servers = <<>> THEN session_tools_map
    ELSE setup(Tail(servers),
               Append(session_tools_map,
                      RegisterTools(Head(servers), ToolsOf(session_tools_map))))

\* json.loads(tool_call.arguments): whether the string is a JSON document
ArgumentStrings == {"{}", "3", "{", ""}

json_loads_ok(arguments) == arguments \in {"{}", "3"}

\* call_tool_result_to_content: "Error:" first if isError, the parts joined by newlines
RECURSIVE JoinLines(_)
JoinLines(parts) ==
    IF parts = <<>> THEN ""
    ELSE IF Len(parts) = 1 THEN parts[1]
    ELSE parts[1] \o "\n" \o JoinLines(Tail(parts))

call_tool_result_to_content(result) ==
    JoinLines((IF result.isError THEN <<"Error:">> ELSE <<>>) \o result.parts)

\* what session.call_tool may do: return a result, or raise
SessionOutcomes ==
    {[kind |-> "result", isError |-> FALSE, parts |-> <<"r">>],
     [kind |-> "result", isError |-> TRUE, parts |-> <<"e", "f">>],
     [kind |-> "raises", exc |-> "McpError"],
     [kind |-> "raises", exc |-> "TimeoutError"]}

\* faulty variant: the handler names one exception class
CatchesExecution_mcp(exc) == exc = "McpError"

\* except Exception, around session.call_tool and the conversion of its result
CatchesExecution(exc) == exc \in {"McpError", "TimeoutError", "ValueError", "RuntimeError"}

\* session is the position in session_tools_map of the session whose call_tool was
\* awaited, 0 when no session was called
Returned(message, path, session) ==
    [raised |-> FALSE, message |-> message, path |-> path, session |-> session]

Raised(exc, session) == [raised |-> TRUE, exc |-> exc, path |-> "raised", session |-> session]

\* Context.call_tool, from session k of session_tools_map on
RECURSIVE Context_call_tool(_, _, _, _)
Context_call_tool(session_tools_map, k, tool_call, outcome) ==
    IF k > Len(session_tools_map)
    THEN Returned(ToolMessage("Herramienta '" \o tool_call.name \o "' no encontrada.",
                              tool_call.id), "not_found", 0)
    ELSE IF \A j \in 1..Len(session_tools_map[k]) : session_tools_map[k][j] # tool_call.name
    THEN Context_call_tool(session_tools_map, k + 1, tool_call, outcome)
    ELSE IF ~json_loads_ok(tool_call.arguments)
    THEN Returned(ToolMessage("Error parseando los parametros de la herramienta '"
                                  \o tool_call.name \o "': ValueError", tool_call.id),
                  "bad_arguments", 0)
    ELSE IF outcome.kind = "result"
    THEN Returned(ToolMessage(call_tool_result_to_content(outcome), tool_call.id), "result", k)
    ELSE IF CatchesExecution(outcome.exc)
    THEN Returned(ToolMessage("Error ejecutando la herramienta '" \o tool_call.name
                                  \o "': " \o outcome.exc, tool_call.id),
                  "execution_failed", k)
    ELSE Raised(outcome.exc, k)

\* the servers of a configuration, each with the tools it offers
ServerConfigs ==
    {<<>>, <<<<"x">>>>, <<<<"x", "y">>, <<"x">>>>, <<<<"y", "y">>, <<"x", "y">>>>}

ToolCalls ==
    {ToolCall(id, name, arguments) :
         id \in Ids, name \in Names \cup {"z"}, arguments \in ArgumentStrings}

InitTool ==
    /\ mem = NewMemory(NoFile, "json", SummaryThreshold)
    /\ hist = Hist("new")
    /\ ag = IdleAgent
    /\ model = FreeModel
    /\ step = NoStep
    /\ run = NoRun
    /\ fork = NoFork
    /\ context = NoContext
    /\ sum = NoSum

\* Agent.__aenter__ -> Context.setup
Setup ==
    /\ ~context.ready
    /\ \E servers \in ServerConfigs :
           context' = [context EXCEPT !.session_tools_map = setup(servers, <<>>),
                                      !.servers = servers,
                                      !.ready = TRUE]
    /\ UNCHANGED <<mem, hist, ag, model, step, run, fork, sum>>

\* tool_message = await self.context.call_tool(tool_call), for one tool call
ContextCallTool ==
    /\ context.ready
    /\ ~context.called
    /\ \E tool_call \in ToolCalls : \E outcome \in SessionOutcomes :
           LET r == Context_call_tool(context.session_tools_map, 1, tool_call, outcome)
           IN  /\ context' = [context EXCEPT !.called = TRUE, !.path = r.path,
                                          !.session = r.session]
               /\ ag' = [ag EXCEPT !.pc = IF r.raised THEN "failed" ELSE "called",
                                   !.pending_tool_calls = Some(<<tool_call>>),
                                   !.idx = 1,
                                   !.tool_message = IF r.raised THEN None ELSE Some(r.message)]
    /\ UNCHANGED <<mem, hist, model, step, run, fork, sum>>

NextTool == Setup \/ ContextCallTool

SpecTool == InitTool /\ [][NextTool]_vars

(***************************************************************************)
(* The assembly of one model phase, fragment by fragment: a call on an     *)
(* empty log whose model stream carries text and the id, name and argument *)
(* fragments of tool calls at several indexes, in any interleaving.        *)
(***************************************************************************)
AsmIndexes == {0, 1, 3}

AsmTokens ==
    {TextToken("h"), TextToken("")}
        \cup {ToolCallIDToken(i, "a") : i \in AsmIndexes}
        \cup {ToolCallNameToken(i, "x") : i \in AsmIndexes}
        \cup {ToolCallArgumentsToken(i, f) : i \in AsmIndexes, f \in {"{", "}"}}

InitAsm ==
    /\ mem = NewMemory(NoFile, "json", SummaryThreshold)
    /\ hist = Hist("new")
    /\ ag = IdleAgent
    /\ model = FreeModel
    /\ step = NoStep
    /\ run = NoRun
    /\ fork = NoFork
    /\ context = NoContext
    /\ sum = NoSum

\* the stream sends one more fragment
AsmToken(token) ==
    /\ StreamOpen(ag)
    /\ ag.ntokens < MaxFragments
    /\ ReceiveToken(token)

NextAsm ==
    \/ Initialize
    \/ StartOnce
    \/ ModelBegin
    \/ \E token \in AsmTokens : AsmToken(token)
    \/ ModelEndAppend
    \/ ModelEndEmpty
    \/ AfterAssistant
    \/ ContextSkip
    \/ Finish

SpecAsm == InitAsm /\ [][NextAsm]_vars
(***************************************************************************)
(* The pending calls, stated from the log instead of by replay.            *)
(***************************************************************************)
RECURSIVE FlatCalls(_)
FlatCalls(messages) ==
    IF messages = <<>> THEN <<>>
    ELSE (IF Head(messages).role = "assistant" THEN Head(messages).tool_calls ELSE <<>>)
             \o FlatCalls(Tail(messages))

AnsweredIds(messages) ==
    {messages[i].call_id : i \in {j \in 1..Len(messages) : messages[j].role = "tool"}}

\* the calls at the positions of flat, from p on, that are the first with their id
\* and whose id is not in answered
RECURSIVE FirstUnansweredFrom(_, _, _)
FirstUnansweredFrom(flat, p, answered) ==
    IF p > Len(flat) THEN <<>>
    ELSE (IF /\ \A q \in 1..(p - 1) : flat[q].id # flat[p].id
             /\ flat[p].id \notin answered
          THEN <<flat[p]>> ELSE <<>>)
             \o FirstUnansweredFrom(flat, p + 1, answered)

PersistedLog == load_task(mem.file).val

\* C2: next_pending_tool_calls() is exactly the sequence of tool calls that are the
\* first with their id in log order and whose id no ToolMessage of the log answers,
\* in order of first occurrence; with no tool message in the log it is the flattened
\* sequence of all tool calls with later duplicates of an id dropped.
C2_PendingIsFirstUnanswered ==
    /\ next_pending_tool_calls(mem.messages)
           = FirstUnansweredFrom(FlatCalls(mem.messages), 1, AnsweredIds(mem.messages))
    /\ AnsweredIds(mem.messages) = {}
           => next_pending_tool_calls(mem.messages)
                  = FirstUnansweredFrom(FlatCalls(mem.messages), 1, {})

\* a log with an answered call, a pending call and an id used twice
C2_Witness ==
    /\ AnsweredIds(mem.messages) # {}
    /\ Len(next_pending_tool_calls(mem.messages)) = 1
    /\ Len(FlatCalls(mem.messages)) > Cardinality(IdsOf(FlatCalls(mem.messages)))

\* C4: when add returns, the persisted document holds the in-memory log.
C4_AddIsDurable ==
    hist.op = "add" => load_task(mem.file).ok /\ PersistedLog = mem.messages

\* C5: when close returns, the persisted document holds the in-memory log.
C5_CloseFlushes ==
    hist.op = "close" => load_task(mem.file).ok /\ PersistedLog = mem.messages

\* C6: a fresh instance initialized on the file a crashed instance left reports the
\* pending calls the crashed instance reported.
C6_RecoveredPendingIsSame ==
    (hist.op = "initialize" /\ hist.recovering)
        => next_pending_tool_calls(mem.messages) = hist.pre

\* C9: once a ToolMessage has been appended for every call that
\* next_pending_tool_calls() listed, and nothing else but tool messages was appended,
\* next_pending_tool_calls() is empty.
C9_AnsweredPendingIsEmpty ==
    (hist.snap.taken /\ hist.snap.ids \subseteq hist.snap.answered)
        => next_pending_tool_calls(mem.messages) = <<>>

\* two calls were pending and both have been answered
C9_Witness ==
    /\ hist.snap.taken
    /\ Cardinality(hist.snap.ids) = 2
    /\ hist.snap.ids \subseteq hist.snap.answered

\* C10: an id that a ToolMessage of the log answers is not pending, whatever else the
\* log holds: an orphan ToolMessage placed before the calls that use its id, or an
\* assistant message that reuses the id after the answer.
C10_AnsweredNeverPending ==
    \A i \in AnsweredIds(mem.messages) : i \notin IdsOf(next_pending_tool_calls(mem.messages))

\* an orphan ToolMessage precedes the first assistant message that uses its id
C10_Witness ==
    \E p \in 1..Len(mem.messages) : \E q \in (p + 1)..Len(mem.messages) :
        /\ mem.messages[p].role = "tool"
        /\ mem.messages[q].role = "assistant"
        /\ mem.messages[p].call_id \in IdsOf(mem.messages[q].tool_calls)
        /\ mem.messages[p].call_id \notin IdsOf(FlatCalls(SubSeq(mem.messages, 1, p)))


(***************************************************************************)
(* The loop of next_stream.                                                *)
(***************************************************************************)
\* C1: the first phase of a next_stream call is the tool phase exactly when
\* next_pending_tool_calls() was not empty at the call, and then the model phase is
\* entered only after a ToolMessage was appended for every call that was pending;
\* with nothing pending the first phase is the model phase.
C1_FirstPhaseFromLog ==
    /\ run.first = "tool" => run.initial # {}
    /\ run.first = "model" => run.initial = {}
    /\ (run.initial # {} /\ run.model_entered) => run.initial \subseteq run.answered

\* a call that began with two pending calls has answered both and is in its model phase
C1_Witness ==
    /\ run.first = "tool"
    /\ Cardinality(run.initial) = 2
    /\ run.initial \subseteq run.answered
    /\ ag.pc = "stream"

\* C3 as claimed: next_stream ends only right after a model phase whose stream
\* produced no tool call.
C3_EndsOnlyAfterCallFreeModelPhase ==
    ag.pc = "done" => run.last = "model" /\ ~run.produced

\* C3 as amended: next_stream ends right after a model phase whose stream produced no
\* tool call, or right after a tool phase that followed a model phase with tool calls,
\* found next_pending_tool_calls() empty and executed no tool; it does not end after a
\* tool phase that executed a call, nor after a model phase that produced a tool call.
C3_EndsAfterModelOrEmptyToolPhase ==
    ag.pc = "done" =>
        \/ run.last = "model" /\ ~run.produced
        \/ /\ run.last = "tool"
           /\ run.executed = 0
           /\ run.produced
           /\ next_pending_tool_calls(mem.messages) = <<>>

\* a call has ended after a tool phase that executed nothing
C3_Witness == ag.pc = "done" /\ run.last = "tool" /\ run.executed = 0

\* C8 as claimed: create_chat_stream is never invoked while a tool batch is in
\* progress, and a step inside the consumption of a model stream neither appends to
\* the log nor calls a tool.
C8_NoStreamCallInBatch ==
    /\ step.create_chat_stream # "none" => ~step.in_batch
    /\ step.in_stream => ~step.appended /\ ~step.call_tool

\* C8 as amended: the agent's model phase never begins while a tool batch is in
\* progress; the only create_chat_stream call made during a batch is the summarization
\* call of a SummarizingJSONFileMemory's add, and none is made with a JSONFileMemory; a
\* step inside the consumption of a model stream neither appends to the log nor calls
\* a tool.
C8_OnlySummaryCallInBatch ==
    /\ step.create_chat_stream = "agent" => ~step.in_batch
    /\ step.in_batch => step.create_chat_stream = "summary" /\ mem.kind = "summarizing"
    /\ step.in_stream => ~step.appended /\ ~step.call_tool

\* the add of a tool message summarized the log while a call of the batch was unanswered
C8_Witness == step.in_batch /\ step.create_chat_stream = "summary" /\ ag.pc = "tool"

SafeYield == fork.at \in {"token", "tool"} \/ (fork.at = "assistant" /\ fork.pending # <<>>)

Payload(token) ==
    CASE token.type = "tool_call_id" -> token.id
      [] token.type = "tool_call_name" -> token.name
      [] token.type = "tool_call_arguments" -> token.arguments

\* the fragments of one field addressed to one index, joined in arrival order
RECURSIVE FragmentsOf(_, _, _)
FragmentsOf(stream, index, type) ==
    IF stream = <<>> THEN ""
    ELSE FragmentsOf(SubSeq(stream, 1, Len(stream) - 1), index, type)
             \o (IF stream[Len(stream)].type = type /\ stream[Len(stream)].index = index
                 THEN Payload(stream[Len(stream)]) ELSE "")

ExpectedCall(stream, index) ==
    ToolCall(FragmentsOf(stream, index, "tool_call_id"),
             FragmentsOf(stream, index, "tool_call_name"),
             FragmentsOf(stream, index, "tool_call_arguments"))

IndexesSeen(stream) ==
    {stream[k].index : k \in {j \in 1..Len(stream) : stream[j].type # "text" /\ stream[j].type # "chat_id"}}

\* the k-th smallest element of a set of indexes
KthIndex(S, k) == CHOOSE i \in S : Cardinality({j \in S : j < i}) = k - 1

\* C11: within a model phase the call assembled for each stream index has id, name and
\* arguments equal to the fragments of that field addressed to that index, joined in
\* arrival order (the empty string if none arrived), however the fragments of
\* different indexes are interleaved; so a fragment never changes another index's call.
C11_FieldsAreConcatenatedPerIndex ==
    (StreamOpen(ag) \/ ag.pc = "assistant") =>
        /\ DOMAIN ag.tool_calls_buffer = IndexesSeen(run.received)
        /\ \A i \in AsmIndexes :
               BufferGet(ag.tool_calls_buffer, i) = ExpectedCall(run.received, i)

\* two argument fragments of one index arrived around a fragment of another index
C11_Witness ==
    /\ ag.pc = "token"
    /\ Len(run.received) = 3
    /\ run.received[1] = ToolCallArgumentsToken(1, "{")
    /\ run.received[2] = ToolCallIDToken(0, "a")
    /\ run.received[3] = ToolCallArgumentsToken(1, "}")
    /\ ag.tool_calls_buffer[1].arguments = "{}"

\* C12: the tool_calls of the AssistantMessage appended after a model phase hold one
\* ToolCall per distinct stream index seen, by ascending index, whatever the order the
\* indexes first arrived in and whether or not they are contiguous or start at 0.
C12_OneCallPerIndexAscending ==
    ag.pc = "assistant" =>
        LET calls == mem.messages[Len(mem.messages)].tool_calls
            S == IndexesSeen(run.received)
        IN  /\ Len(calls) = Cardinality(S)
            /\ \A k \in 1..Len(calls) : calls[k] = ExpectedCall(run.received, KthIndex(S, k))

\* index 3 arrived before index 1 and index 0 never arrived
C12_Witness ==
    /\ ag.pc = "assistant"
    /\ Len(run.received) = 3
    /\ run.received[1].type = "tool_call_id" /\ run.received[1].index = 3
    /\ run.received[2].type = "tool_call_id" /\ run.received[2].index = 1
    /\ Len(mem.messages[Len(mem.messages)].tool_calls) = 2

\* C13: an AssistantMessage is appended only when the model stream has ended: every
\* other step taken inside a model stream (a further token, the failure of the stream,
\* which leaves next_stream, and the abandonment of the call at a token) leaves the log
\* exactly as it was when that model phase began.
C13_LogUntouchedInsideStream ==
    [][(StreamOpen(ag) /\ ag'.pc # "assistant") => (mem' = mem /\ mem.messages = ag.messages)]_vars

\* the stream failed after text had been assembled, on a log that was not empty
C13_Witness ==
    /\ ag.pc = "failed"
    /\ ag.content_buffer # ""
    /\ mem.messages # <<>>
    /\ mem.messages = ag.messages

BatchPosition(j, n) == Len(mem.messages) - (n - j)

\* at the start of a batch the list is what next_pending_tool_calls() lists
BatchIsPendingList ==
    (ag.pc = "batch" /\ ag.idx = 1) =>
        ag.pending_tool_calls.v = next_pending_tool_calls(mem.messages)

\* inside a batch the ToolMessages of the calls executed so far end the log, in the
\* order of the batch (a compaction may have removed the oldest of them, never reordered)
BatchAnswersEndTheLog ==
    ag.pc \in {"batch", "tool"} =>
        \A j \in 1..(ag.idx - 1) :
            LET pos == BatchPosition(j, ag.idx - 1)
            IN  (mem.kind = "json" \/ pos >= 2) =>
                    /\ pos >= 2
                    /\ mem.messages[pos].role = "tool"
                    /\ mem.messages[pos].call_id = ag.pending_tool_calls.v[j].id

\* a call is invoked only when no other is in flight, and it is the idx-th of the batch
InvokesNextOfBatch ==
    (ag'.pc = "called" /\ ag.pc # "called") =>
        /\ ag.pc \in {"batch", "tool"}
        /\ ag.tool_message = None
        /\ ag'.idx = ag.idx
        /\ ag'.pending_tool_calls = ag.pending_tool_calls
        /\ ag'.tool_message.v.call_id = ag.pending_tool_calls.v[ag.idx].id
        /\ mem' = mem

\* the only step out of an invocation appends its ToolMessage and moves to the next call
AppendsBeforeNextCall ==
    ag.pc = "called" =>
        /\ ag'.pc = "tool"
        /\ ag'.idx = ag.idx + 1
        /\ ag'.pending_tool_calls = ag.pending_tool_calls
        /\ mem'.messages # <<>>
        /\ mem'.messages[Len(mem'.messages)] = ag.tool_message.v

\* C15: in a tool phase the pending calls are invoked one at a time in the order
\* next_pending_tool_calls() listed them; the ToolMessage of each call is appended to the
\* log before the next call is invoked, so the ToolMessages of a batch appear in the log
\* in the order in which their calls were pending.
C15_BatchInOrderOneAtATime ==
    /\ [](BatchIsPendingList /\ BatchAnswersEndTheLog)
    /\ [][InvokesNextOfBatch /\ AppendsBeforeNextCall]_vars

\* both calls of a batch of two are answered, a before b, at the end of the log
C15_Witness ==
    /\ ag.pc = "tool"
    /\ ag.idx = 3
    /\ mem.kind = "json"
    /\ IdsOf(ag.pending_tool_calls.v) = {"a", "b"}
    /\ mem.messages[Len(mem.messages) - 1].call_id = ag.pending_tool_calls.v[1].id
    /\ mem.messages[Len(mem.messages)].call_id = ag.pending_tool_calls.v[2].id

\* C16: every token the model stream of a model phase produces is emitted to the caller
\* of next_stream exactly once and in the order received, and all of them are emitted
\* before the assembled AssistantMessage of that phase.
C16_TokensPassThroughInOrder ==
    /\ StreamOpen(ag) => run.emitted = run.received
    /\ ag.pc = "assistant" =>
           /\ Len(run.emitted) = Len(run.received) + 1
           /\ SubSeq(run.emitted, 1, Len(run.received)) = run.received
           /\ run.emitted[Len(run.emitted)] = mem.messages[Len(mem.messages)]
           /\ run.emitted[Len(run.emitted)].role = "assistant"

\* three tokens of three types, then the message assembled from them
C16_Witness ==
    /\ ag.pc = "assistant"
    /\ run.received = <<ToolCallIDToken(1, "a"), TextToken("h"), ToolCallNameToken(1, "x")>>
    /\ Len(run.emitted) = 4
    /\ run.emitted[4] = AssistantMessage("h", <<ToolCall("a", "x", "")>>)

\* a stream without text and without tool-call fragments: empty, or chat-id tokens only
Silent(stream) == \A k \in 1..Len(stream) : stream[k].type = "chat_id"

\* the end of a silent stream: nothing appended, nothing emitted, both flags down
SilentStreamEndsQuietly ==
    (StreamOpen(ag) /\ Silent(run.received) /\ ag'.pc \notin {"stream", "token", "failed", "idle"}) =>
        /\ ag'.pc = "context"
        /\ ~ag'.model_dirty /\ ~ag'.context_dirty
        /\ mem' = mem
        /\ run'.emitted = run.emitted
        /\ run'.appended = run.appended

\* after a silent model phase the only steps of next_stream are those to its end
SilentPhaseGoesToEnd ==
    (ag.pc \in {"context", "loop"} /\ run.last = "model" /\ Silent(run.received)) =>
        /\ ag'.pc \in {"loop", "done"}
        /\ ag.pc = "loop" => ag'.pc = "done"
        /\ mem' = mem
        /\ run' = run

\* C17: if a model stream yields no text and no tool-call fragment (it is empty or carries
\* only a chat-id token), that model phase appends nothing to the log, emits no
\* AssistantMessage and invokes no tool, and next_stream then ends.
C17_SilentStreamIsNoOp == [][SilentStreamEndsQuietly /\ SilentPhaseGoesToEnd]_vars

\* next_stream has ended after one model phase whose stream was a single chat-id token
C17_Witness ==
    /\ ag.pc = "done"
    /\ run.phases = 1
    /\ run.last = "model"
    /\ run.received = <<ChatIDToken("c")>>
    /\ run.appended = 0
    /\ run.executed = 0
    /\ ~run.started

\* a stream of text tokens only, at least one
TextOnly(stream) ==
    /\ stream # <<>>
    /\ \A k \in 1..Len(stream) : stream[k].type = "text"

\* the texts of the text tokens of a stream, one after the other
RECURSIVE TextOf(_)
TextOf(stream) ==
    IF stream = <<>> THEN ""
    ELSE IF Head(stream).type = "text" THEN Head(stream).text \o TextOf(Tail(stream))
    ELSE TextOf(Tail(stream))

\* next_stream has ended after a single model phase, started with nothing pending
EndedAfterOnePhase ==
    /\ ag.pc = "done"
    /\ run.initial = {}
    /\ run.phases = 1

\* one AssistantMessage with the text and no tool call was appended, no tool invoked
AppendedTextMessage ==
    /\ run.appended = 1
    /\ mem.messages # <<>>
    /\ mem.messages[Len(mem.messages)] = AssistantMessage(TextOf(run.received), <<>>)
    /\ ~run.started
    /\ run.executed = 0

\* C18 as stated: when next_stream starts on a log with no pending tool call and the model
\* stream yields only text tokens, exactly one AssistantMessage is appended, its content
\* is the concatenation of the text tokens in order and its tool_calls is empty, no tool
\* is invoked, and next_stream ends.
C18_TextOnlyAppendsOneMessage ==
    (EndedAfterOnePhase /\ TextOnly(run.received)) => AppendedTextMessage

\* C18 amended: the same for text tokens whose concatenation is not empty; if every text
\* token is empty nothing is appended, and next_stream ends as well.
C18_NonEmptyTextAppendsOneMessage ==
    (EndedAfterOnePhase /\ TextOnly(run.received)) =>
        IF TextOf(run.received) # ""
        THEN AppendedTextMessage
        ELSE run.appended = 0 /\ mem.messages = <<>> /\ ~run.started

\* three text tokens, the second empty, made one message "hh"
C18_Witness ==
    /\ EndedAfterOnePhase
    /\ run.received = <<TextToken("h"), TextToken(""), TextToken("h")>>
    /\ mem.messages = <<AssistantMessage("hh", <<>>)>>

\* the log a reader saw has its overflow prefix removed and no summary in its place
SawCutLog(reader) ==
    /\ reader.all # reader.whole
    /\ reader.all = SubSeq(reader.whole, mem.summary_threshold + 1, Len(reader.whole))

\* C19: compaction is atomic for readers: no all() or next_pending_tool_calls() call made
\* by another task at a suspension point of SummarizingJSONFileMemory.add or compact
\* observes a log from which the overflow prefix has been removed while the summary
\* message has not yet been inserted.
C19_ReadersNeverSeeCutLog ==
    (sum.reader.taken /\ sum.reader.at = "stream") => ~SawCutLog(sum.reader)

\* C20 as stated: after a compaction, the content of the summary message at the head of
\* the log equals the concatenation, in order, of the text tokens of the model's
\* summarization response (tokens of other kinds are ignored).
C20_SummaryIsTextOfResponse ==
    sum.pc = "compacted" =>
        /\ mem.messages[1].role = "user"
        /\ mem.messages[1].content = TextOf(sum.stream)

\* C20 amended: the content is the fixed header "Resumen de la converzacion:\n" followed
\* by the concatenation, in order, of the text tokens of the response.
C20_SummaryIsHeaderAndTextOfResponse ==
    sum.pc = "compacted" =>
        /\ mem.messages[1].role = "user"
        /\ mem.messages[1].content = SummaryPrefix \o TextOf(sum.stream)

\* a response of a chat-id token and a text token, summarized as the header and the text
C20_Witness ==
    /\ sum.pc = "compacted"
    /\ sum.stream = <<ChatIDToken("c"), TextToken("s")>>
    /\ mem.messages[1] = UserMessage("Resumen de la converzacion:\ns")
    /\ Len(mem.messages) = 2

\* C21 as stated: whenever compaction runs on a log longer than the threshold, the log
\* length afterwards is the retained-window size plus one (the summary), the
\* retained-window size being a parameter strictly smaller than the threshold.
C21_CompactedLengthIsWindowPlusOne ==
    sum.pc = "compacted" =>
        \E retained \in 0..(mem.summary_threshold - 1) : Len(mem.messages) = retained + 1

\* C21 amended: the log length afterwards is the number of messages beyond the first
\* summary_threshold, plus one: all of them are retained, however many they are, and
\* none when compact() runs on a log no longer than summary_threshold.
C21_CompactedLengthIsRestPlusOne ==
    sum.pc = "compacted" =>
        LET rest == IF Len(sum.whole) > mem.summary_threshold
                    THEN Len(sum.whole) - mem.summary_threshold ELSE 0
        IN  /\ Len(mem.messages) = rest + 1
            /\ Tail(mem.messages) = SubSeq(sum.whole, mem.summary_threshold + 1, Len(sum.whole))

\* a log of MaxMessages + 1 messages compacted: all but the first summary_threshold stay
C21_Witness ==
    /\ sum.pc = "compacted"
    /\ Len(sum.whole) = MaxMessages + 1
    /\ mem.summary_threshold = SummaryThreshold
    /\ Len(mem.messages) = MaxMessages + 2 - SummaryThreshold

\* add has returned: it is not suspended in a summarization, and did not raise
AddReturned == sum.by = "add" /\ sum.pc \in {"idle", "compacted"}

\* C22: compaction keeps the log bounded: for every summary_threshold >= 1 and an initial
\* log no longer than the threshold, after every SummarizingJSONFileMemory.add returns
\* the log holds at most summary_threshold messages, for any sequence of adds.
C22_LogWithinThresholdAfterAdd ==
    (AddReturned /\ hist.loaded <= mem.summary_threshold) =>
        Len(mem.messages) <= mem.summary_threshold

\* the k-th message of a log answers a call of an assistant message before it
HasEarlierCall(messages, k) ==
    \E j \in 1..(k - 1) :
        /\ messages[j].role = "assistant"
        /\ \E c \in 1..Len(messages[j].tool_calls) :
               messages[j].tool_calls[c].id = messages[k].call_id

\* C23: in every reachable state of the log (starting from a log that satisfies it, under
\* any sequence of agent cycles, user-message adds and compactions), each ToolMessage is
\* preceded in the log by an AssistantMessage containing a ToolCall whose id equals the
\* ToolMessage's call_id.
C23_ToolMessageFollowsItsCall ==
    \A k \in 1..Len(mem.messages) :
        mem.messages[k].role = "tool" => HasEarlierCall(mem.messages, k)

\* C24: JSONFileMemory is append-only: for any sequence of add operations the log before
\* each add is a prefix of the log after it, the new message is the last element, and no
\* message already in the log is reordered, changed or removed.
C24_AddOnlyAppends ==
    [][hist'.adds = hist.adds + 1 =>
         /\ Len(mem'.messages) = Len(mem.messages) + 1
         /\ SubSeq(mem'.messages, 1, Len(mem.messages)) = mem.messages
         /\ mem'.messages[Len(mem'.messages)] \in AddedMessages]_vars

\* a tool message added after an assistant message that was added to a loaded log
C24_Witness ==
    /\ hist.op = "add"
    /\ hist.adds = 2
    /\ Len(mem.messages) = 4
    /\ mem.messages[3].role = "assistant"
    /\ mem.messages[4] = ToolMessage("r", "a")

\* C25: persisting a log and loading it into a fresh JSONFileMemory reproduces an equal
\* ordered sequence of messages: same length, and for each position the same role,
\* content, call_id and tool_calls (id, name, arguments, in order).
C25_LoadOfSaveIsTheLog ==
    /\ load_task(save_task(mem.messages)).ok
    /\ load_task(save_task(mem.messages)).val = mem.messages
    /\ (hist.op = "initialize" /\ mem.file.exists) => save_task(mem.messages) = mem.file

\* a fresh memory has loaded the SaveEvery messages an earlier memory persisted when it
\* added the last of them, an assistant message with two tool calls
C25_Witness ==
    /\ hist.op = "initialize"
    /\ hist.loaded = SaveEvery
    /\ mem.messages[SaveEvery].role = "assistant"
    /\ Len(mem.messages[SaveEvery].tool_calls) = 2
    /\ mem.messages[SaveEvery].tool_calls[1].id # mem.messages[SaveEvery].tool_calls[1].name

\* C26: loading a malformed persisted document (top level not an object, messages not a
\* list, a message that is not an object, an unknown role, a non-string content, call_id
\* or tool-call field) makes initialize() fail with an error, and leaves both the
\* in-memory log and the persisted document unchanged rather than resetting them to empty.
C26_MalformedLoadFailsAndKeepsAll ==
    [][(hist.op = "new" /\ mem.file \in BadFiles) =>
           /\ hist'.op = "failed"
           /\ mem'.messages = mem.messages
           /\ mem'.file = mem.file]_vars

\* initialize() has failed on a document whose second message has a tool call with
\* arguments that are not a string
C26_Witness ==
    /\ hist.op = "failed"
    /\ mem.file \in BadFiles
    /\ mem.file.doc.t = "obj"
    /\ Len(mem.file.doc.v.messages.v) = 2
    /\ mem.file.doc.v.messages.v[2].t = "obj"
    /\ mem.messages = <<>>

EmittedMessages == SelectSeq(run.emitted, LAMBDA e : "role" \in DOMAIN e)

\* C29: every assembled message emitted to the caller of next_stream (the AssistantMessage
\* of a model phase, each ToolMessage of a tool phase) is already contained in the log
\* at the moment it is emitted, and messages are emitted in the same order in which they
\* were appended: while next_stream runs, the messages emitted so far end the log in the
\* order of their emission (a compaction may have removed the oldest of them).
C29_EmittedMessagesEndTheLog ==
    /\ ag.pc \in {"assistant", "tool"} =>
           /\ EmittedMessages # <<>>
           /\ mem.messages # <<>>
           /\ mem.messages[Len(mem.messages)] = EmittedMessages[Len(EmittedMessages)]
    /\ ag.pc \in {"assistant", "context", "batch", "called", "tool", "loop"} =>
           \A j \in 1..Len(EmittedMessages) :
               LET pos == Len(mem.messages) - (Len(EmittedMessages) - j)
               IN  (mem.kind = "json" \/ pos >= 2) =>
                       /\ pos >= 1
                       /\ mem.messages[pos] = EmittedMessages[j]

\* an assistant message and then the tool message of its call were emitted, and end the log
C29_Witness ==
    /\ ag.pc = "tool"
    /\ mem.kind = "json"
    /\ Len(EmittedMessages) = 2
    /\ EmittedMessages[1].role = "assistant"
    /\ EmittedMessages[2].role = "tool"
    /\ mem.messages[Len(mem.messages) - 1] = EmittedMessages[1]
    /\ mem.messages[Len(mem.messages)] = EmittedMessages[2]

\* the ToolMessages the tool phase that has just ended appended and emitted
BatchMessages == SelectSeq(EmittedMessages, LAMBDA e : e.role = "tool")

\* the while loop is at its test after a tool phase that executed a call
AfterExecutingBatch == ag.pc = "loop" /\ run.last = "tool" /\ run.executed >= 1

\* C30 as stated: whenever a tool phase executed at least one call, a model phase follows
\* it within the same next_stream call, and the message list passed to that model
\* invocation contains every ToolMessage appended by that tool phase.
C30_ModelPhaseGetsAllBatchAnswers ==
    [][AfterExecutingBatch =>
           /\ ag'.pc = "stream"
           /\ \A j \in 1..Len(BatchMessages) :
                  \E k \in 1..Len(ag'.messages) : ag'.messages[k] = BatchMessages[j]]_vars

\* C30 amended: the message list is the log of that moment, which ends with the
\* ToolMessages of that tool phase in order; with the summarizing memory those that a
\* compaction replaced by the summary are missing, the last one never is.
C30_ModelPhaseGetsBatchAnswersInLog ==
    [][AfterExecutingBatch =>
           /\ ag'.pc = "stream"
           /\ ag'.messages = mem.messages
           /\ ag'.messages[Len(ag'.messages)] = BatchMessages[Len(BatchMessages)]
           /\ \A j \in 1..Len(BatchMessages) :
                  LET pos == Len(ag'.messages) - (Len(BatchMessages) - j)
                  IN  (mem.kind = "json" \/ pos >= 2) =>
                          /\ pos >= 1
                          /\ ag'.messages[pos] = BatchMessages[j]]_vars

\* the model phase after a batch of two calls has begun, with both answers in its list
C30_Witness ==
    /\ ag.pc = "stream"
    /\ ag.ntokens = 0
    /\ run.last = "tool"
    /\ run.executed = 2
    /\ mem.kind = "json"
    /\ ag.messages[Len(ag.messages) - 1] = ToolMessage("r", "a")
    /\ ag.messages[Len(ag.messages)] = ToolMessage("r", "b")

(***************************************************************************)
(* C31: the server a tool name belongs to                                  *)
(***************************************************************************)
\* the servers of the configuration that offer the name, by position
Offering(servers, name) ==
    {i \in 1..Len(servers) : \E j \in 1..Len(servers[i]) : servers[i][j] = name}

\* the sessions under which the name is registered, by position
ListedUnder(session_tools_map, name) == Offering(session_tools_map, name)

\* C31: after Context.setup every tool name occurs at most once in tools_definitions
\* and is listed under the first server, in configuration order, that offers it; the
\* one session call_tool awaits for a call with that name is the session of that server.
C31_CollisionsGoToEarliestServer ==
    context.ready =>
        LET defs == tools_definitions(context.session_tools_map)
        IN  /\ \A i, j \in 1..Len(defs) : defs[i] = defs[j] => i = j
            /\ Len(context.session_tools_map) = Len(context.servers)
            /\ \A name \in Names \cup {"z"} :
                   /\ (\E i \in 1..Len(defs) : defs[i] = name)
                          <=> Offering(context.servers, name) # {}
                   /\ Offering(context.servers, name) # {} =>
                          ListedUnder(context.session_tools_map, name)
                              = {Min(Offering(context.servers, name))}
            /\ context.called =>
                   LET name == ag.pending_tool_calls.v[1].name
                   IN  /\ context.session # 0 =>
                              /\ Offering(context.servers, name) # {}
                              /\ context.session = Min(Offering(context.servers, name))
                       /\ (Offering(context.servers, name) # {}
                               /\ json_loads_ok(ag.pending_tool_calls.v[1].arguments))
                              => context.session # 0

\* both servers offer "y" and the second alone offers "x": a call of "y" ran on the
\* first server
C31_Witness ==
    /\ context.called
    /\ context.servers = <<<<"y", "y">>, <<"x", "y">>>>
    /\ context.session_tools_map = <<<<"y">>, <<"x">>>>
    /\ ag.pending_tool_calls.v[1].name = "y"
    /\ context.path = "result"
    /\ context.session = 1

(***************************************************************************)
(* C32: when add and compact start a compaction                            *)
(***************************************************************************)
\* a step that is a call of compact(): the memory was at rest and is afterwards at rest
\* or inside _create_summary, on behalf of compact
CompactCalled ==
    /\ SumIdle
    /\ sum'.by = "compact"
    /\ sum'.pc \in {"idle", "stream"}
    /\ ~sum'.reader.taken

\* C32: SummarizingJSONFileMemory.add runs a compaction if and only if the log length
\* after appending the message is strictly greater than summary_threshold; compact()
\* runs one if and only if the log length is strictly greater than max_messages, and
\* otherwise leaves the log and the persisted document unchanged.
C32_CompactionTriggers ==
    [][/\ hist'.adds = hist.adds + 1 =>
             /\ sum'.pc = "stream" <=> Len(mem.messages) + 1 > mem.summary_threshold
             /\ sum'.pc # "stream" => sum'.pc = "idle" /\ Len(mem'.messages) = Len(mem.messages) + 1
       /\ CompactCalled =>
             /\ sum'.pc = "stream" <=> Len(mem.messages) > MaxMessages
             /\ sum'.pc = "stream" => sum'.overflow_messages = Overflow(mem)
             /\ sum'.pc # "stream" =>
                    /\ mem'.messages = mem.messages
                    /\ mem'.file = mem.file]_vars

\* compact() on a compacted log of exactly max_messages messages did nothing
C32_Witness ==
    /\ sum.by = "compact"
    /\ sum.pc = "idle"
    /\ Len(mem.messages) = MaxMessages
    /\ mem.messages[1].content = SummaryPrefix \o "s"
    /\ mem.file = save_task(mem.messages)

(***************************************************************************)
(* C33: what a compaction does                                             *)
(***************************************************************************)
\* C33: a compaction over a log of n messages with K = summary_threshold replaces the
\* log with one summary message followed by the messages that were at positions
\* K+1..n, unchanged and in order (the new length is max(n-K, 0) + 1); the model call
\* gets the first min(n, K) messages, then one instruction message, and no tool
\* definitions.
C33_CompactionKeepsRestAndSummarizesPrefix ==
    LET n == Len(sum.whole)
        K == mem.summary_threshold
    IN  /\ sum.pc \in {"stream", "compacted", "failed"} =>
               /\ Len(sum.overflow_messages) = (IF n < K THEN n ELSE K) + 1
               /\ \A i \in 1..(Len(sum.overflow_messages) - 1) :
                      sum.overflow_messages[i] = sum.whole[i]
               /\ sum.overflow_messages[Len(sum.overflow_messages)]
                      = UserMessage(SumarizePrompt)
               /\ sum.tool_definitions = Some(<<>>)
        /\ sum.pc = "compacted" =>
               /\ Len(mem.messages) = (IF n > K THEN n - K ELSE 0) + 1
               /\ mem.messages[1] = UserMessage(sum.summary)
               /\ \A i \in 2..Len(mem.messages) : mem.messages[i] = sum.whole[K + i - 1]

\* a log of max_messages + 1 messages and a larger summary_threshold: compact() left
\* the summary alone, and the model got the whole log and the instruction
C33_Witness ==
    /\ sum.pc = "compacted"
    /\ sum.by = "compact"
    /\ mem.summary_threshold > Len(sum.whole)
    /\ Len(sum.whole) = MaxMessages + 1
    /\ Len(sum.overflow_messages) = MaxMessages + 2
    /\ mem.messages = <<UserMessage(SummaryPrefix \o "s")>>

(***************************************************************************)
(* C34: termination                                                        *)
(***************************************************************************)
\* C34: under fairness, if every model stream and every tool invocation completes and
\* the model eventually answers with a stream that contains no tool call, then
\* next_stream eventually terminates.
C34_NextStreamTerminates == (ag.pc \notin {"idle", "done"}) ~> (ag.pc = "done")

\* the call ended after a tool batch between two model phases
C34_Witness ==
    /\ ag.pc = "done"
    /\ hist.turns = MaxTurns
    /\ run.answered # {}
    /\ run.last = "model"
    /\ ~run.produced

(***************************************************************************)
(* C35: the recent history                                                 *)
(***************************************************************************)
\* C35: get_history(limit) returns the most recent messages of the log in log order
\* and never more than limit of them, for every limit >= 0 and every log (limit 0
\* returns no message).
C35_HistoryIsLastAtMostLimit ==
    hist.history.taken =>
        LET list == hist.history.list
            n == Len(hist.history.was)
        IN  /\ Len(list) <= hist.history.limit
            /\ Len(list) <= n
            /\ list = SubSeq(hist.history.was, n - Len(list) + 1, n)

(***************************************************************************)
(* C36: the pending calls across a compaction                              *)
(***************************************************************************)
\* C36: compaction preserves the pending set: right after a compaction, started by add
\* or by compact, next_pending_tool_calls() returns the list of tool calls it would
\* have returned on the uncompacted log.
C36_CompactionKeepsPending ==
    sum.pc = "compacted" =>
        next_pending_tool_calls(mem.messages) = next_pending_tool_calls(sum.whole)

(***************************************************************************)
(* C37: a summarization that fails                                         *)
(***************************************************************************)
\* C37: if the summarization model call fails during a compaction, the failing add or
\* compact leaves the in-memory log with every message it held before the compaction
\* started: no overflow message is lost and no partial summary is inserted.
C37_FailedSummaryKeepsLog ==
    sum.pc = "failed" =>
        /\ Len(mem.messages) = Len(sum.whole)
        /\ \A i \in 1..Len(sum.whole) : mem.messages[i] = sum.whole[i]

C39_NoCallExecutedTwice == \A id \in Ids : hist.called[id] <= 1

\* a call abandoned at the yield of the first tool message of a batch of two, and the
\* next call has run the second
C39_Witness ==
    /\ run.initial = {"b"}
    /\ hist.called = [id \in Ids |-> 1]
    /\ ag.pc = "tool"
    /\ mem.kind = "json"

====
